---- MODULE Spec2Model ----
(***************************************************************************)
(* Multiplication Arcade: the question generator (lib/game) and the game   *)
(* session state machine (components/Game.tsx).                            *)
(*                                                                         *)
(* Two specifications share this module:                                   *)
(*   GenSpec  runs generateQuestions one Math.random() call at a time, for *)
(*            every level in 1..GenMaxLevel and every random stream;       *)
(*   Spec     runs the session: the event handlers of Game.tsx and the     *)
(*            timer callbacks they arm.                                    *)
(***************************************************************************)
EXTENDS Integers, Sequences, FiniteSets, TLC

VARIABLES
    gen,                  \* locals of one generateQuestions call (GenSpec)
    gameState,            \* 'menu' | 'playing' | 'level_complete' | 'game_over' | 'victory'
    level,
    hearts,
    questions,
    currentQuestionIndex,
    userAnswer,           \* sequence of one-character strings
    correctCount,
    wrongCount,
    feedback,             \* 'none' | 'correct' | 'wrong'
    timer,
    isProcessing,
    isMuted,
    showVictoryButton,
    resumePending,        \* handleStartGame is suspended at `await audio.resume()`
    answerTimeouts,       \* the pending 800 ms callbacks in the order armed, each the values its closure captured
    victoryTimeouts,      \* number of pending 10 s setShowVictoryButton(true) callbacks
    bgmPlaying,           \* audio.isPlaying, driven by the Background Music Control effect
    cues                  \* requests made to the audio object by the last step

sessionVars == <<gameState, level, hearts, questions, currentQuestionIndex,
                 userAnswer, correctCount, wrongCount, feedback, timer,
                 isProcessing, isMuted, showVictoryButton, resumePending,
                 answerTimeouts, victoryTimeouts, bgmPlaying, cues>>

vars == <<gen, sessionVars>>

(***************************************************************************)
(* Program constants                                                       *)
(***************************************************************************)
TOTAL_LEVELS == 9
MAX_HEARTS == 3
BaseQuestionCount == 20
QuestionCountStep == 10
QuestionCountCap == 50
MinMultiplier == 2
MaxB == 9
MaxAttempts == 20
MaxAnswerLen == 3

(***************************************************************************)
(* Bounds of the model                                                     *)
(***************************************************************************)
\* Math.random() returns k / RandDen for some k in 0..RandDen-1.
RandDen == 2
\* The values of successive Math.random() calls within one generateQuestions
\* call repeat with this period.
RandPeriod == 2
\* GenSpec generates for the levels 1..GenMaxLevel.
GenMaxLevel == 10
\* The session draws its random streams from the seeds 1..SessionSeeds.
SessionSeeds == 1
\* The 1 s tick is followed up to this timer value.
MaxTimer == 1

(***************************************************************************)
(* The random source.  A stream is identified by a seed: its RandPeriod    *)
(* values are the base-RandDen digits of the seed, read cyclically.        *)
(***************************************************************************)
Seeds == 0 .. (RandDen ^ RandPeriod) - 1

\* numerator k of the value k / RandDen of the (pos+1)-th Math.random() call
RandomNum(seed, pos) == (seed \div (RandDen ^ (pos % RandPeriod))) % RandDen

\* Math.floor(Math.random() * n)
RandomIndex(seed, pos, n) == (RandomNum(seed, pos) * n) \div RandDen

(***************************************************************************)
(* lib/game: getLevelConfig, generateQuestions                             *)
(***************************************************************************)
Min(x, y) == IF x < y THEN x ELSE y

\* getLevelConfig with the cap at QuestionCountCap left out
getLevelConfig_NoCap(lvl) ==
    [questionCount |-> BaseQuestionCount + (lvl - 1) * QuestionCountStep,
     minMultiplier |-> MinMultiplier,
     maxMultiplier |-> lvl + 1]

getLevelConfig(lvl) ==
    LET raw == BaseQuestionCount + (lvl - 1) * QuestionCountStep
    IN  [questionCount |-> IF raw > QuestionCountCap THEN QuestionCountCap ELSE raw,
         minMultiplier |-> MinMultiplier,
         maxMultiplier |-> lvl + 1]

\* poolAll with the inner loop running b = 0 .. 8
poolAll_BFromZero(lvl) ==
    LET cfg == getLevelConfig(lvl)
        n   == (cfg.maxMultiplier - cfg.minMultiplier + 1) * MaxB
    IN  [k \in 1 .. n |-> [a |-> cfg.minMultiplier + ((k - 1) \div MaxB),
                           b |-> (k - 1) % MaxB]]

\* poolAll in push order: a ascending, b ascending within a
poolAll(lvl) ==
    LET cfg == getLevelConfig(lvl)
        n   == (cfg.maxMultiplier - cfg.minMultiplier + 1) * MaxB
    IN  [k \in 1 .. n |-> [a |-> cfg.minMultiplier + ((k - 1) \div MaxB),
                           b |-> 1 + ((k - 1) % MaxB)]]

IsTop(q, lvl) == q.a = getLevelConfig(lvl).maxMultiplier

poolTop(lvl) ==
    LET keep(q) == IsTop(q, lvl)
    IN  SelectSeq(poolAll(lvl), keep)

\* mandatoryTopCount with Math.floor in place of Math.ceil
mandatoryTopCount_Floor(lvl) == getLevelConfig(lvl).questionCount \div 3

\* Math.ceil(questionCount / 3.0)
mandatoryTopCount(lvl) == (getLevelConfig(lvl).questionCount + 2) \div 3

anyCount(lvl) == getLevelConfig(lvl).questionCount - mandatoryTopCount(lvl)

\* the intention list before the shuffle
InitialIntentions(lvl) ==
    [k \in 1 .. (mandatoryTopCount(lvl) + anyCount(lvl)) |->
        IF k <= mandatoryTopCount(lvl) THEN "top" ELSE "any"]

\* lastQ = null
NoQuestion == [a |-> 0, b |-> 0]

\* The locals of generateQuestions when the shuffle loop is about to start:
\* the pools and the intention list are built.  i is the (0-based) shuffle index, n the number of Math.random() calls so
\* far, k the (1-based) position of the intention being served.
GenStart(lvl, seed) ==
    LET ints == InitialIntentions(lvl)
    IN  [level      |-> lvl,
         seed       |-> seed,
         poolAll    |-> poolAll(lvl),
         poolTop    |-> poolTop(lvl),
         n          |-> 0,
         pc         |-> IF Len(ints) - 1 > 0 THEN "shuffle"
                        ELSE IF Len(ints) > 0 THEN "draw" ELSE "done",
         i          |-> Len(ints) - 1,
         intentions |-> ints,
         k          |-> 1,
         questions  |-> << >>,
         lastQ      |-> NoQuestion,
         randomQ    |-> NoQuestion,
         attempts   |-> 0]

\* One iteration of the Fisher-Yates loop.
ShuffleIter(g) ==
    LET j    == RandomIndex(g.seed, g.n, g.i + 1)
        ints == [g.intentions EXCEPT ![g.i + 1] = g.intentions[j + 1],
                                     ![j + 1]   = g.intentions[g.i + 1]]
    IN  [g EXCEPT !.intentions = ints,
                  !.n  = g.n + 1,
                  !.i  = g.i - 1,
                  !.pc = IF g.i - 1 > 0 THEN "shuffle" ELSE "draw"]

\* the while condition comparing randomQ.b with lastQ.a
MustRetry_WrongField(qs, lastQ, randomQ, attempts) ==
    /\ Len(qs) > 0
    /\ lastQ # NoQuestion
    /\ randomQ.a = lastQ.a
    /\ randomQ.b = lastQ.a
    /\ attempts < MaxAttempts

\* the while condition of the do-while loop
MustRetry(qs, lastQ, randomQ, attempts) ==
    /\ Len(qs) > 0
    /\ lastQ # NoQuestion
    /\ randomQ.a = lastQ.a
    /\ randomQ.b = lastQ.b
    /\ attempts < MaxAttempts

\* One pass through the do-while body and its test; when the loop exits, the
\* push, lastQ = randomQ and the step of the for loop.  pc = "draw" enters
\* the body for a new intention (attempts = 0), pc = "retry" re-enters it.
DrawIter(g) ==
    LET pool     == IF g.intentions[g.k] = "top" THEN g.poolTop ELSE g.poolAll
        randomQ  == pool[RandomIndex(g.seed, g.n, Len(pool)) + 1]
        attempts == (IF g.pc = "draw" THEN 0 ELSE g.attempts) + 1
    IN  IF MustRetry(g.questions, g.lastQ, randomQ, attempts)
        THEN [g EXCEPT !.n = g.n + 1, !.randomQ = randomQ, !.attempts = attempts,
                       !.pc = "retry"]
        ELSE [g EXCEPT !.n = g.n + 1, !.randomQ = randomQ, !.attempts = attempts,
                       !.questions = Append(g.questions, randomQ),
                       !.lastQ = randomQ,
                       !.k = g.k + 1,
                       !.pc = IF g.k + 1 > Len(g.intentions) THEN "done" ELSE "draw"]

\* the next Math.random() call of generateQuestions and what follows it up to
\* the call after; nothing once the for loop has ended
GenStep(g) ==
    IF g.pc = "shuffle" THEN ShuffleIter(g)
    ELSE IF g.pc \in {"draw", "retry"} THEN DrawIter(g)
    ELSE g

\* GenStep applied `steps` times (by halving, to keep the evaluation shallow)
RECURSIVE GenSteps(_, _)
GenSteps(g, steps) ==
    IF steps = 0 THEN g
    ELSE IF steps = 1 THEN GenStep(g)
    ELSE LET half == GenSteps(g, steps \div 2)
         IN  IF half.pc = "done" THEN half
             ELSE GenSteps(half, steps - (steps \div 2))

\* generateQuestions makes at most this many Math.random() calls: one per
\* shuffle iteration and at most MaxAttempts per question
MaxRandomCalls(lvl) ==
    LET count == getLevelConfig(lvl).questionCount
    IN  (count - 1) + count * MaxAttempts

\* generateQuestions(level) when Math.random() follows the stream of `seed`
generateQuestions(lvl, seed) ==
    GenSteps(GenStart(lvl, seed), MaxRandomCalls(lvl)).questions

(***************************************************************************)
(* Strings are sequences of one-character strings.                         *)
(***************************************************************************)
DigitChars == <<"0", "1", "2", "3", "4", "5", "6", "7", "8", "9">>

IsDigit(c) == \E d \in 1 .. 10 : DigitChars[d] = c

DigitValue(c) == (CHOOSE d \in 1 .. 10 : DigitChars[d] = c) - 1

\* Number.prototype.toString() of a non-negative integer
RECURSIVE toString(_)
toString(n) ==
    IF n < 10 THEN <<DigitChars[n + 1]>>
    ELSE Append(toString(n \div 10), DigitChars[(n % 10) + 1])

\* the value of the longest prefix of digits of cs (at least one), after acc
RECURSIVE ParseDigits(_, _)
ParseDigits(cs, acc) ==
    IF cs = << >> \/ ~IsDigit(Head(cs)) THEN acc
    ELSE ParseDigits(Tail(cs), acc * 10 + DigitValue(Head(cs)))

RECURSIVE SkipSpaces(_)
SkipSpaces(cs) ==
    IF cs # << >> /\ Head(cs) = " " THEN SkipSpaces(Tail(cs)) ELSE cs

NaN == [isNaN |-> TRUE, value |-> 0]

\* parseInt(str): leading white space is skipped, then an optional sign, then
\* the longest run of decimal digits; NaN when that run is empty.
\* (A 0x prefix, which parseInt reads as hexadecimal, is in none of the texts
\* the model submits.)
parseInt(str) ==
    LET t    == SkipSpaces(str)
        neg  == t # << >> /\ Head(t) = "-"
        body == IF t # << >> /\ Head(t) \in {"-", "+"} THEN Tail(t) ELSE t
    IN  IF body = << >> \/ ~IsDigit(Head(body)) THEN NaN
        ELSE [isNaN |-> FALSE,
              value |-> IF neg THEN 0 - ParseDigits(body, 0) ELSE ParseDigits(body, 0)]

\* /^\d*$/.test(val)
AllDigits(val) == \A k \in 1 .. Len(val) : IsDigit(val[k])

\* prev.slice(0, -1)
DropLast(str) == IF str = << >> THEN << >> ELSE SubSeq(str, 1, Len(str) - 1)

(***************************************************************************)
(* GenSpec: one generateQuestions call, a Math.random() call per step      *)
(***************************************************************************)
GenIdle == [pc |-> "idle"]

\* no 800 ms callback is pending
NoTimeout == << >>

SessionInit ==
    /\ gameState = "menu"
    /\ level = 1
    /\ hearts = MAX_HEARTS
    /\ questions = << >>
    /\ currentQuestionIndex = 0
    /\ userAnswer = << >>
    /\ correctCount = 0
    /\ wrongCount = 0
    /\ feedback = "none"
    /\ timer = 0
    /\ isProcessing = FALSE
    /\ isMuted = FALSE
    /\ showVictoryButton = FALSE
    /\ resumePending = FALSE
    /\ answerTimeouts = NoTimeout
    /\ victoryTimeouts = 0
    /\ bgmPlaying = FALSE
    /\ cues = << >>

GenInit ==
    /\ \E lvl \in 1 .. GenMaxLevel, seed \in Seeds : gen = GenStart(lvl, seed)
    /\ SessionInit

GenShuffle ==
    /\ gen.pc = "shuffle"
    /\ gen' = ShuffleIter(gen)
    /\ UNCHANGED sessionVars

GenDraw ==
    /\ gen.pc \in {"draw", "retry"}
    /\ gen' = DrawIter(gen)
    /\ UNCHANGED sessionVars

GenNext == GenShuffle \/ GenDraw

GenSpec == GenInit /\ [][GenNext]_vars

(***************************************************************************)
(* Properties of generateQuestions (checked under GenSpec)                 *)
(***************************************************************************)
GenDone == gen.pc = "done"

\* the questions emitted so far that are on the top multiplier
TopQuestions == {k \in 1 .. Len(gen.questions) : gen.questions[k].a = gen.level + 1}

\* the least n with 3n >= count
CeilThird(count) == CHOOSE n \in 0 .. count : 3 * n >= count /\ 3 * (n - 1) < count

InRange(q, lvl) == 2 <= q.a /\ q.a <= lvl + 1 /\ 1 <= q.b /\ q.b <= 9

\* C1: generateQuestions(level) returns exactly min(20 + (level-1)*10, 50)
\* questions, for every level and every random stream.
C1_Length ==
    GenDone => Len(gen.questions) = Min(20 + (gen.level - 1) * 10, 50)

\* a call that returned at a level where the cap of 50 applies
C1_Witness == GenDone /\ gen.level >= 5 /\ Len(gen.questions) = 50

\* C2: at least ceil(questionCount/3) of the returned questions have
\* a = level + 1.
C2_TopShare ==
    GenDone => Cardinality(TopQuestions) >= CeilThird(Len(gen.questions))

\* a call that returned exactly the mandatory number of top questions, at a
\* level where poolAll holds other multipliers and the count is no multiple of 3
C2_Witness ==
    /\ GenDone
    /\ gen.level = 3
    /\ Len(gen.questions) % 3 # 0
    /\ Cardinality(TopQuestions) = CeilThird(Len(gen.questions))

\* C3: every question emitted has 2 <= a <= level+1 and 1 <= b <= 9; so has
\* every member of the two pools the questions are drawn from.
C3_Range ==
    /\ \A k \in 1 .. Len(gen.questions) : InRange(gen.questions[k], gen.level)
    /\ \A k \in 1 .. Len(gen.poolAll) : InRange(gen.poolAll[k], gen.level)
    /\ \A k \in 1 .. Len(gen.poolTop) : InRange(gen.poolTop[k], gen.level)

\* a call that returned questions on the lowest and on the top multiplier
C3_Witness ==
    /\ GenDone
    /\ gen.level >= 2
    /\ \E k \in 1 .. Len(gen.questions) : gen.questions[k].a = 2
    /\ \E k \in 1 .. Len(gen.questions) : gen.questions[k].a = gen.level + 1

\* the pool the k-th question is drawn from
PoolOf(k) == IF gen.intentions[k] = "top" THEN gen.poolTop ELSE gen.poolAll

\* C4 as claimed: where the pool sampled has at least 2 members, no two
\* adjacent questions are equal.
C4_NoAdjacentRepeat ==
    \A k \in 1 .. Len(gen.questions) - 1 :
        Len(PoolOf(k + 1)) >= 2 => gen.questions[k] # gen.questions[k + 1]

\* the question just pushed equals the one before it
LastTwoEqual ==
    /\ gen.pc \in {"draw", "done"}
    /\ Len(gen.questions) >= 2
    /\ gen.questions[Len(gen.questions)] = gen.questions[Len(gen.questions) - 1]

\* C4 amended: a question equal to the one before it is pushed only after
\* 20 attempts (each of which drew that question); a question accepted on an
\* earlier attempt differs from the one before it.
C4_RepeatOnlyAfterMaxAttempts ==
    /\ LastTwoEqual => gen.attempts = 20
    /\ gen.pc = "retry" => gen.randomQ = gen.lastQ /\ gen.attempts < 20

\* a question was drawn again because of a repeat, and the redraw was accepted
C4_Witness ==
    /\ gen.pc \in {"draw", "done"}
    /\ Len(gen.questions) >= 2
    /\ gen.attempts > 1
    /\ gen.attempts < 20
    /\ gen.questions[Len(gen.questions)] # gen.questions[Len(gen.questions) - 1]

(***************************************************************************)
(* components/Game.tsx: the session                                        *)
(***************************************************************************)
SessionSeedSet == {seed \in Seeds : 1 <= seed /\ seed <= SessionSeeds}

\* Background Music Control effect: runs after every commit that changed
\* gameState or isMuted
BgmEffect == bgmPlaying' = (gameState' = "playing" /\ ~isMuted')

\* startLevel without setWrongCount(0)
startLevel_KeepsWrongCount(lvl, initialHearts, seed) ==
    /\ cues' = <<"click">>
    /\ questions' = generateQuestions(lvl, seed)
    /\ currentQuestionIndex' = 0
    /\ hearts' = initialHearts
    /\ correctCount' = 0
    /\ UNCHANGED wrongCount
    /\ gameState' = "playing"
    /\ userAnswer' = << >>
    /\ feedback' = "none"
    /\ timer' = 0
    /\ isProcessing' = FALSE
    /\ level' = lvl
    /\ UNCHANGED <<gen, isMuted, showVictoryButton, answerTimeouts, victoryTimeouts>>
    /\ BgmEffect

\* startLevel(lvl, initialHearts); generateQuestions draws from the stream of `seed`
startLevel(lvl, initialHearts, seed) ==
    /\ cues' = <<"click">>
    /\ questions' = generateQuestions(lvl, seed)
    /\ currentQuestionIndex' = 0
    /\ hearts' = initialHearts
    /\ correctCount' = 0
    /\ wrongCount' = 0
    /\ gameState' = "playing"
    /\ userAnswer' = << >>
    /\ feedback' = "none"
    /\ timer' = 0
    /\ isProcessing' = FALSE
    /\ level' = lvl
    /\ UNCHANGED <<gen, isMuted, showVictoryButton, answerTimeouts, victoryTimeouts>>
    /\ BgmEffect

\* START GAME button (menu): handleStartGame up to `await audio.resume()`
HandleStartGame ==
    /\ gameState = "menu"
    /\ ~resumePending
    /\ resumePending' = TRUE
    /\ cues' = <<"resume">>
    /\ UNCHANGED <<gen, gameState, level, hearts, questions, currentQuestionIndex,
                   userAnswer, correctCount, wrongCount, feedback, timer,
                   isProcessing, isMuted, showVictoryButton, answerTimeouts,
                   victoryTimeouts, bgmPlaying>>

\* audio.resume() resolved: handleStartGame continues with startLevel(1, MAX_HEARTS)
ResumeResolved ==
    /\ resumePending
    /\ resumePending' = FALSE
    /\ \E seed \in SessionSeedSet : startLevel(1, MAX_HEARTS, seed)

\* audio.resume() rejected (init() threw, or ctx.resume() rejected):
\* handleStartGame ends there
ResumeRejected ==
    /\ resumePending
    /\ resumePending' = FALSE
    /\ cues' = << >>
    /\ UNCHANGED <<gen, gameState, level, hearts, questions, currentQuestionIndex,
                   userAnswer, correctCount, wrongCount, feedback, timer,
                   isProcessing, isMuted, showVictoryButton, answerTimeouts,
                   victoryTimeouts, bgmPlaying>>

\* the bonus heart without the cap
bonusHearts_NoCap(h) == h + 1

\* const nextHearts = Math.min(hearts + 1, MAX_HEARTS)
bonusHearts(h) == Min(h + 1, MAX_HEARTS)

\* NEXT LEVEL button (level-complete card)
HandleNextLevel ==
    /\ gameState = "level_complete"
    /\ \E seed \in SessionSeedSet : startLevel(level + 1, bonusHearts(hearts), seed)
    /\ UNCHANGED resumePending

\* handleRestartLevel passing the hearts held on to startLevel
HandleRestartLevel_KeepsHearts ==
    /\ gameState = "level_complete"
    /\ \E seed \in SessionSeedSet : startLevel(level, hearts, seed)
    /\ UNCHANGED resumePending

\* RESTART LEVEL button (level-complete card)
HandleRestartLevel ==
    /\ gameState = "level_complete"
    /\ \E seed \in SessionSeedSet : startLevel(level, MAX_HEARTS, seed)
    /\ UNCHANGED resumePending

\* PLAY AGAIN rendered on the victory card from the start
HandleRestartGame_ButtonAlwaysShown ==
    /\ \/ gameState = "game_over"
       \/ gameState = "victory"
    /\ \E seed \in SessionSeedSet : startLevel(1, MAX_HEARTS, seed)
    /\ UNCHANGED resumePending

\* RESTART GAME button (game-over card), PLAY AGAIN button (victory card,
\* rendered once showVictoryButton is set)
HandleRestartGame ==
    /\ \/ gameState = "game_over"
       \/ gameState = "victory" /\ showVictoryButton
    /\ \E seed \in SessionSeedSet : startLevel(1, MAX_HEARTS, seed)
    /\ UNCHANGED resumePending

\* toggleMute written as setIsMuted(true)
ToggleMute_AlwaysMutes ==
    /\ gameState \in {"menu", "playing"}
    /\ isMuted' = TRUE
    /\ cues' = << >>
    /\ UNCHANGED <<gen, gameState, level, hearts, questions, currentQuestionIndex,
                   userAnswer, correctCount, wrongCount, feedback, timer,
                   isProcessing, showVictoryButton, resumePending, answerTimeouts,
                   victoryTimeouts>>
    /\ BgmEffect

\* mute buttons: the menu card's, and the HUD's (clickable while playing)
ToggleMute ==
    /\ gameState \in {"menu", "playing"}
    /\ isMuted' = ~isMuted
    /\ cues' = << >>
    /\ UNCHANGED <<gen, gameState, level, hearts, questions, currentQuestionIndex,
                   userAnswer, correctCount, wrongCount, feedback, timer,
                   isProcessing, showVictoryButton, resumePending, answerTimeouts,
                   victoryTimeouts>>
    /\ BgmEffect

\* questions[currentQuestionIndex]
currentQ == questions[currentQuestionIndex + 1]

\* correctAnswer computed as the sum of the operands
correctAnswerOf_Sum(q) == q.a + q.b

\* const correctAnswer = currentQ.a * currentQ.b
correctAnswerOf(q) == q.a * q.b

\* the `if (isCorrect)` branch of handleAnswer
GradeCorrect ==
    /\ correctCount' = correctCount + 1
    /\ feedback' = "correct"
    /\ cues' = IF ~isMuted THEN <<"correct">> ELSE << >>
    /\ UNCHANGED <<hearts, wrongCount>>

\* the `else` branch without setHearts(prev => prev - 1)
GradeWrong_KeepsHearts ==
    /\ wrongCount' = wrongCount + 1
    /\ feedback' = "wrong"
    /\ cues' = IF ~isMuted THEN <<"wrong">> ELSE << >>
    /\ UNCHANGED <<hearts, correctCount>>

\* the `else` branch without setFeedback('wrong')
GradeWrong_NoFeedback ==
    /\ hearts' = hearts - 1
    /\ wrongCount' = wrongCount + 1
    /\ cues' = IF ~isMuted THEN <<"wrong">> ELSE << >>
    /\ UNCHANGED <<correctCount, feedback>>

\* the `else` branch of handleAnswer
GradeWrong ==
    /\ hearts' = hearts - 1
    /\ wrongCount' = wrongCount + 1
    /\ feedback' = "wrong"
    /\ cues' = IF ~isMuted THEN <<"wrong">> ELSE << >>
    /\ UNCHANGED correctCount

\* the early returns without the test of isProcessing
EarlyReturn_NoLock(answerStr) ==
    \/ gameState # "playing"
    \/ answerStr = << >>
    \/ parseInt(answerStr).isNaN

\* the early returns without the test of isNaN(val)
EarlyReturn_NoNaNTest(answerStr) ==
    \/ gameState # "playing" \/ isProcessing
    \/ answerStr = << >>

\* the early returns of handleAnswer
EarlyReturn(answerStr) ==
    \/ gameState # "playing" \/ isProcessing
    \/ answerStr = << >>
    \/ parseInt(answerStr).isNaN

\* handleAnswer(answerStr): the synchronous part, up to arming the 800 ms
\* timeout.  The callback closes over isCorrect, nextHearts and this render's
\* currentQuestionIndex, questions, level and isMuted.
handleAnswer(answerStr) ==
    LET val == parseInt(answerStr)
    IN  IF EarlyReturn(answerStr)
        THEN /\ cues' = << >>
             /\ UNCHANGED <<gen, gameState, level, hearts, questions,
                            currentQuestionIndex, userAnswer, correctCount,
                            wrongCount, feedback, timer, isProcessing, isMuted,
                            showVictoryButton, resumePending, answerTimeouts,
                            victoryTimeouts, bgmPlaying>>
        ELSE LET isCorrect  == val.value = correctAnswerOf(currentQ)
                 nextHearts == IF isCorrect THEN hearts ELSE hearts - 1
             IN  /\ isProcessing' = TRUE
                 /\ IF isCorrect THEN GradeCorrect ELSE GradeWrong
                 /\ answerTimeouts' = Append(answerTimeouts,
                        [isCorrect            |-> isCorrect,
                         nextHearts           |-> nextHearts,
                         currentQuestionIndex |-> currentQuestionIndex,
                         questionsLength      |-> Len(questions),
                         level                |-> level,
                         isMuted              |-> isMuted])
                 /\ UNCHANGED <<gen, gameState, level, questions,
                                currentQuestionIndex, userAnswer, timer, isMuted,
                                showVictoryButton, resumePending,
                                victoryTimeouts, bgmPlaying>>

\* Enter in the input field (handleKeyDown) or the ENTER button: both are
\* rendered while playing and disabled while isProcessing
Submit ==
    /\ gameState = "playing"
    /\ ~isProcessing
    /\ handleAnswer(userAnswer)

\* The texts handleAnswer is called with where the page's controls do not
\* call it with the buffer: Enter again on the text just submitted while the
\* answer is being processed, a call outside a level, and texts that are
\* empty or no number.
AnswerInputs ==
    {<< >>, <<" ", "-", "x">>}
        \cup (IF gameState = "playing" /\ ~isProcessing
              THEN {}
              ELSE {userAnswer, <<"6">>})

\* handleAnswer(answerStr) called in any state
AnswerCall == \E answerStr \in AnswerInputs : handleAnswer(answerStr)

\* the callback testing for the end of the level before the game-over test
Outcome_LevelEndFirst(t) ==
    IF t.currentQuestionIndex >= t.questionsLength - 1
    THEN IF t.level >= TOTAL_LEVELS THEN "victory" ELSE "level_complete"
    ELSE IF ~t.isCorrect /\ t.nextHearts <= 0 THEN "game_over"
         ELSE "next_question"

\* the callback testing level > TOTAL_LEVELS
Outcome_VictoryPastLastLevel(t) ==
    IF ~t.isCorrect /\ t.nextHearts <= 0 THEN "game_over"
    ELSE IF t.currentQuestionIndex >= t.questionsLength - 1
         THEN IF t.level > TOTAL_LEVELS THEN "victory" ELSE "level_complete"
         ELSE "next_question"

\* the callback testing nextHearts < 0
Outcome_GameOverBelowZero(t) ==
    IF ~t.isCorrect /\ t.nextHearts < 0 THEN "game_over"
    ELSE IF t.currentQuestionIndex >= t.questionsLength - 1
         THEN IF t.level >= TOTAL_LEVELS THEN "victory" ELSE "level_complete"
         ELSE "next_question"

\* the callback testing currentQuestionIndex >= questions.length
Outcome_LevelEndOffByOne(t) ==
    IF ~t.isCorrect /\ t.nextHearts <= 0 THEN "game_over"
    ELSE IF t.currentQuestionIndex >= t.questionsLength
         THEN IF t.level >= TOTAL_LEVELS THEN "victory" ELSE "level_complete"
         ELSE "next_question"

\* what the 800 ms callback decides from the values t it closed over
Outcome(t) ==
    IF ~t.isCorrect /\ t.nextHearts <= 0 THEN "game_over"
    ELSE IF t.currentQuestionIndex >= t.questionsLength - 1
         THEN IF t.level >= TOTAL_LEVELS THEN "victory" ELSE "level_complete"
         ELSE "next_question"

\* the callback without setIsProcessing(false)
AnswerTimeout_KeepsLock ==
    /\ answerTimeouts # NoTimeout
    /\ answerTimeouts' = Tail(answerTimeouts)
    /\ feedback' = "none"
    /\ userAnswer' = << >>
    /\ UNCHANGED isProcessing
    /\ LET outcome == Outcome(Head(answerTimeouts))
           audible == ~Head(answerTimeouts).isMuted
       IN  CASE outcome = "game_over" ->
                  /\ gameState' = "game_over"
                  /\ cues' = IF audible THEN <<"gameOver">> ELSE << >>
                  /\ UNCHANGED <<currentQuestionIndex, showVictoryButton, victoryTimeouts>>
             [] outcome = "victory" ->
                  /\ gameState' = "victory"
                  /\ showVictoryButton' = FALSE
                  /\ cues' = IF audible THEN <<"victory">> ELSE << >>
                  /\ victoryTimeouts' = victoryTimeouts + 1
                  /\ UNCHANGED currentQuestionIndex
             [] outcome = "level_complete" ->
                  /\ gameState' = "level_complete"
                  /\ cues' = IF audible THEN <<"levelComplete">> ELSE << >>
                  /\ UNCHANGED <<currentQuestionIndex, showVictoryButton, victoryTimeouts>>
             [] OTHER ->
                  /\ currentQuestionIndex' = currentQuestionIndex + 1
                  /\ cues' = << >>
                  /\ UNCHANGED <<gameState, showVictoryButton, victoryTimeouts>>
    /\ UNCHANGED <<gen, level, hearts, questions, correctCount, wrongCount, timer,
                   isMuted, resumePending>>
    /\ BgmEffect

\* the callback of the 800 ms timeout armed by handleAnswer
AnswerTimeout ==
    /\ answerTimeouts # NoTimeout
    /\ answerTimeouts' = Tail(answerTimeouts)
    /\ feedback' = "none"
    /\ userAnswer' = << >>
    /\ isProcessing' = FALSE
    /\ LET outcome == Outcome(Head(answerTimeouts))
           audible == ~Head(answerTimeouts).isMuted
       IN  CASE outcome = "game_over" ->
                  /\ gameState' = "game_over"
                  /\ cues' = IF audible THEN <<"gameOver">> ELSE << >>
                  /\ UNCHANGED <<currentQuestionIndex, showVictoryButton, victoryTimeouts>>
             [] outcome = "victory" ->
                  /\ gameState' = "victory"
                  /\ showVictoryButton' = FALSE
                  /\ cues' = IF audible THEN <<"victory">> ELSE << >>
                  /\ victoryTimeouts' = victoryTimeouts + 1
                  /\ UNCHANGED currentQuestionIndex
             [] outcome = "level_complete" ->
                  /\ gameState' = "level_complete"
                  /\ cues' = IF audible THEN <<"levelComplete">> ELSE << >>
                  /\ UNCHANGED <<currentQuestionIndex, showVictoryButton, victoryTimeouts>>
             [] OTHER ->
                  /\ currentQuestionIndex' = currentQuestionIndex + 1
                  /\ cues' = << >>
                  /\ UNCHANGED <<gameState, showVictoryButton, victoryTimeouts>>
    /\ UNCHANGED <<gen, level, hearts, questions, correctCount, wrongCount, timer,
                   isMuted, resumePending>>
    /\ BgmEffect

\* the callback of the 10 s timeout armed on victory
VictoryTimeout ==
    /\ victoryTimeouts > 0
    /\ victoryTimeouts' = victoryTimeouts - 1
    /\ showVictoryButton' = TRUE
    /\ cues' = << >>
    /\ UNCHANGED <<gen, gameState, level, hearts, questions, currentQuestionIndex,
                   userAnswer, correctCount, wrongCount, feedback, timer,
                   isProcessing, isMuted, resumePending, answerTimeouts, bgmPlaying>>

\* the interval left running whatever gameState is
Tick_AnyState ==
    /\ timer < MaxTimer
    /\ timer' = timer + 1
    /\ cues' = << >>
    /\ UNCHANGED <<gen, gameState, level, hearts, questions, currentQuestionIndex,
                   userAnswer, correctCount, wrongCount, feedback,
                   isProcessing, isMuted, showVictoryButton, resumePending,
                   answerTimeouts, victoryTimeouts, bgmPlaying>>

\* the callback of the 1 s interval of the Timer Logic effect, which is set
\* while gameState is 'playing'
Tick ==
    /\ gameState = "playing"
    /\ timer < MaxTimer
    /\ timer' = timer + 1
    /\ cues' = << >>
    /\ UNCHANGED <<gen, gameState, level, hearts, questions, currentQuestionIndex,
                   userAnswer, correctCount, wrongCount, feedback,
                   isProcessing, isMuted, showVictoryButton, resumePending,
                   answerTimeouts, victoryTimeouts, bgmPlaying>>

\* a numpad digit button (rendered while playing, disabled while isProcessing)
onNumpadClick(num) ==
    /\ gameState = "playing"
    /\ ~isProcessing
    /\ cues' = IF ~isMuted THEN <<"click">> ELSE << >>
    /\ userAnswer' = IF Len(userAnswer) < MaxAnswerLen
                     THEN userAnswer \o toString(num)
                     ELSE userAnswer
    /\ UNCHANGED <<gen, gameState, level, hearts, questions, currentQuestionIndex,
                   correctCount, wrongCount, feedback, timer,
                   isProcessing, isMuted, showVictoryButton, resumePending,
                   answerTimeouts, victoryTimeouts, bgmPlaying>>

\* the DEL button (rendered while playing, disabled while isProcessing)
onBackspace ==
    /\ gameState = "playing"
    /\ ~isProcessing
    /\ cues' = IF ~isMuted THEN <<"click">> ELSE << >>
    /\ userAnswer' = DropLast(userAnswer)
    /\ UNCHANGED <<gen, gameState, level, hearts, questions, currentQuestionIndex,
                   correctCount, wrongCount, feedback, timer,
                   isProcessing, isMuted, showVictoryButton, resumePending,
                   answerTimeouts, victoryTimeouts, bgmPlaying>>

\* onChange of the input field (rendered while playing with a current
\* question, disabled while isProcessing); val is the field's new content
onChange(val) ==
    /\ gameState = "playing"
    /\ currentQuestionIndex < Len(questions)
    /\ ~isProcessing
    /\ userAnswer' = IF AllDigits(val) /\ Len(val) <= MaxAnswerLen
                     THEN val ELSE userAnswer
    /\ cues' = << >>
    /\ UNCHANGED <<gen, gameState, level, hearts, questions, currentQuestionIndex,
                   correctCount, wrongCount, feedback, timer,
                   isProcessing, isMuted, showVictoryButton, resumePending,
                   answerTimeouts, victoryTimeouts, bgmPlaying>>

\* What the player is entering for the current question: the product asked
\* for, or 0 (never a product: wrong).  A first digit alone is wrong too.
Targets ==
    IF currentQuestionIndex < Len(questions)
    THEN {toString(currentQ.a * currentQ.b), toString(0)}
    ELSE {}

IsPrefix(s, t) == Len(s) <= Len(t) /\ SubSeq(t, 1, Len(s)) = s

\* The numpad digits the player uses: the next digit of a target, and, with
\* the buffer full, one more digit.
NumpadInputs ==
    {num \in 0 .. 9 :
        \/ \E t \in Targets : IsPrefix(userAnswer \o toString(num), t)
        \/ Len(userAnswer) = MaxAnswerLen /\ num = 0}

\* What the input field reports to onChange: a target, a text that is no
\* number, and a text that is too long.
ChangeInputs ==
    Targets \cup UNION {{<<"-">> \o t, <<"0", "0", "0">> \o t} : t \in Targets}

Init ==
    /\ gen = GenIdle
    /\ SessionInit

Next ==
    \/ HandleStartGame
    \/ ResumeResolved
    \/ ResumeRejected
    \/ HandleNextLevel
    \/ HandleRestartLevel
    \/ HandleRestartGame
    \/ ToggleMute
    \/ Submit
    \/ AnswerCall
    \/ AnswerTimeout
    \/ VictoryTimeout
    \/ Tick
    \/ \E num \in NumpadInputs : onNumpadClick(num)
    \/ onBackspace
    \/ \E val \in ChangeInputs : onChange(val)

Spec == Init /\ [][Next]_vars

\* The session with the timers of the page running: a callback that setTimeout
\* has armed is run by the event loop once its delay has passed.
FairSpec == Spec /\ WF_vars(AnswerTimeout) /\ WF_vars(VictoryTimeout)

(***************************************************************************)
(* Properties of the session (checked under Spec)                          *)
(***************************************************************************)
\* the value the buffer parses to is the product asked for
ParsesToProduct(str) ==
    /\ str # << >>
    /\ ~parseInt(str).isNaN
    /\ parseInt(str).value = currentQ.a * currentQ.b

\* the buffer parses to an integer that is not the product asked for
ParsesToOther(str) ==
    /\ str # << >>
    /\ ~parseInt(str).isNaN
    /\ parseInt(str).value # currentQ.a * currentQ.b

\* the sequences generateQuestions(lvl) returns to the session
Generated(lvl) == {generateQuestions(lvl, seed) : seed \in SessionSeedSet}

\* C5: while playing and not processing, submitting an answer that parses to
\* a*b sets feedback to correct, adds 1 to correctCount, sets isProcessing and
\* leaves hearts, wrongCount, level, currentQuestionIndex and gameState alone.
C5_CorrectAnswer ==
    [][(Submit /\ gameState = "playing" /\ ~isProcessing /\ ParsesToProduct(userAnswer))
        => /\ feedback' = "correct"
           /\ correctCount' = correctCount + 1
           /\ isProcessing'
           /\ UNCHANGED <<hearts, wrongCount, level, currentQuestionIndex, gameState>>]_vars

\* a two-digit product was submitted and graded correct
C5_Witness ==
    /\ gameState = "playing"
    /\ isProcessing
    /\ feedback = "correct"
    /\ correctCount >= 1
    /\ Len(userAnswer) = 2
    /\ ParsesToProduct(userAnswer)

\* C6: while playing and not processing, submitting an answer that parses to
\* another integer than a*b sets feedback to wrong, takes 1 from hearts, adds
\* 1 to wrongCount, sets isProcessing and leaves correctCount alone.
C6_WrongAnswer ==
    [][(Submit /\ gameState = "playing" /\ ~isProcessing /\ ParsesToOther(userAnswer))
        => /\ feedback' = "wrong"
           /\ hearts' = hearts - 1
           /\ wrongCount' = wrongCount + 1
           /\ isProcessing'
           /\ UNCHANGED correctCount]_vars

\* a number other than the product was submitted and graded wrong
C6_Witness ==
    /\ gameState = "playing"
    /\ isProcessing
    /\ feedback = "wrong"
    /\ wrongCount >= 1
    /\ hearts < MAX_HEARTS
    /\ ParsesToOther(userAnswer)

\* C7: when the 800 ms callback runs after a wrong answer that left hearts at
\* 0, gameState becomes game_over and currentQuestionIndex stays; game_over is
\* entered by no other step; and hearts = 0 whenever gameState is game_over.
C7_GameOver ==
    /\ [][(AnswerTimeout /\ feedback = "wrong" /\ hearts = 0)
            => gameState' = "game_over" /\ UNCHANGED currentQuestionIndex]_vars
    /\ [][(gameState # "game_over" /\ gameState' = "game_over")
            => AnswerTimeout /\ feedback = "wrong" /\ hearts = 0]_vars
    /\ [](gameState = "game_over" => hearts = 0)

\* the game ended on the last question of a level
C7_Witness ==
    /\ gameState = "game_over"
    /\ hearts = 0
    /\ currentQuestionIndex = Len(questions) - 1

\* C8: when the 800 ms callback runs for the last question of a level with
\* hearts remaining, gameState becomes victory at level >= 9 and
\* level_complete below; victory is entered only at level 9 or above and
\* level_complete only below level 9.
C8_LevelEnd ==
    /\ [][(AnswerTimeout /\ currentQuestionIndex = Len(questions) - 1 /\ hearts > 0)
            => gameState' = IF level >= 9 THEN "victory" ELSE "level_complete"]_vars
    /\ [](gameState = "victory" => level >= 9)
    /\ [](gameState = "level_complete" => level < 9)

\* level 9 was completed with a wrong answer among its answers
C8_Witness ==
    /\ gameState = "victory"
    /\ level = 9
    /\ hearts > 0
    /\ wrongCount > 0
    /\ currentQuestionIndex = Len(questions) - 1

\* C9: nextLevel leads to playing at level + 1 with min(hearts + 1, 3) hearts,
\* questions generated for level + 1, and correctCount, wrongCount, timer and
\* currentQuestionIndex at 0.
C9_NextLevel ==
    [][HandleNextLevel
        => /\ gameState = "level_complete"
           /\ gameState' = "playing"
           /\ level' = level + 1
           /\ hearts' = (IF hearts + 1 < 3 THEN hearts + 1 ELSE 3)
           /\ questions' \in Generated(level + 1)
           /\ correctCount' = 0
           /\ wrongCount' = 0
           /\ timer' = 0
           /\ currentQuestionIndex' = 0]_vars

\* a level past the first has just started with fewer than 3 hearts: it was
\* entered by nextLevel, with the bonus heart below the cap
C9_Witness ==
    /\ gameState = "playing"
    /\ level = 4
    /\ hearts = 2
    /\ currentQuestionIndex = 0
    /\ correctCount = 0
    /\ wrongCount = 0
    /\ timer = 0
    /\ Len(questions) = 50

\* C10: restartLevel leads to playing at the same level with 3 hearts,
\* whatever the hearts held, questions generated for that level, and
\* correctCount, wrongCount, timer and currentQuestionIndex at 0.
C10_RestartLevel ==
    [][HandleRestartLevel
        => /\ gameState = "level_complete"
           /\ gameState' = "playing"
           /\ level' = level
           /\ hearts' = 3
           /\ questions' \in Generated(level)
           /\ correctCount' = 0
           /\ wrongCount' = 0
           /\ timer' = 0
           /\ currentQuestionIndex' = 0]_vars

\* a level was completed on the last heart, after a tick of the timer:
\* restartLevel is offered here
C10_Witness ==
    /\ gameState = "level_complete"
    /\ hearts = 1
    /\ wrongCount > 0
    /\ timer > 0
    /\ currentQuestionIndex > 0

\* the step ends in a level-1 session
YieldsLevelOneSession ==
    /\ gameState' = "playing"
    /\ level' = 1
    /\ hearts' = 3
    /\ questions' \in Generated(1)
    /\ currentQuestionIndex' = 0
    /\ correctCount' = 0
    /\ wrongCount' = 0
    /\ timer' = 0
    /\ userAnswer' = << >>
    /\ feedback' = "none"
    /\ ~isProcessing'

\* C11: startGame from menu and restartGame from game_over or victory each
\* yield a level-1 session: every run of handleStartGame to its end, and
\* every handleRestartGame, ends playing at level 1 with 3 hearts, questions
\* generated for level 1, cursor, counters and timer at 0, an empty buffer,
\* no feedback and the input unlocked.
C11_StartYieldsLevelOne ==
    [][(ResumeResolved \/ ResumeRejected \/ HandleRestartGame)
        => YieldsLevelOneSession]_vars

\* the audio requests that are cues (audio.resume() is the activation)
CueRequests == {k \in 1 .. Len(cues) : cues[k] # "resume"}

\* C12: in every state in which isMuted is set, the step that led there made
\* no cue request to the audio object.
C12_NoCueWhileMuted == isMuted => CueRequests = {}

\* C13: a failure of the audio object does not reach the game state and
\* startGame does not depend on it: whichever way the wait for
\* audio.resume() ends, the session is playing afterwards.
C13_StartDespiteAudioFailure ==
    [][(resumePending /\ ~resumePending') => gameState' = "playing"]_vars

\* the fields of the session the page renders
sessionFields == <<gameState, level, hearts, questions, currentQuestionIndex,
                   userAnswer, correctCount, wrongCount, feedback, timer,
                   isProcessing, isMuted>>

\* C14: a handleAnswer call made while isProcessing is set changes no field
\* of the session, requests no cue and arms no callback; at most one 800 ms
\* callback is pending at any time; and while playing the answers counted
\* never exceed the questions resolved plus the one being processed.
C14_DroppedWhileProcessing ==
    /\ [][\A answerStr \in AnswerInputs :
            (isProcessing /\ handleAnswer(answerStr))
                => /\ UNCHANGED sessionFields
                   /\ cues' = << >>
                   /\ UNCHANGED answerTimeouts]_vars
    /\ [](Len(answerTimeouts) <= 1)
    /\ [](gameState = "playing"
            => correctCount + wrongCount
                 <= currentQuestionIndex + (IF isProcessing THEN 1 ELSE 0))

\* the answer to a later question of a level is being processed, its callback
\* is pending, the buffer still holds the text submitted (Enter again submits
\* it again), and the last step requested nothing from the audio object
C14_Witness ==
    /\ gameState = "playing"
    /\ isProcessing
    /\ ~isMuted
    /\ Len(answerTimeouts) = 1
    /\ currentQuestionIndex >= 1
    /\ correctCount + wrongCount = currentQuestionIndex + 1
    /\ ParsesToProduct(userAnswer)
    /\ userAnswer \in AnswerInputs
    /\ cues = << >>

\* the calls the claim says are ignored whatever isProcessing is
NotPlayingOrNoNumber(answerStr) ==
    \/ gameState # "playing"
    \/ answerStr = << >>
    \/ parseInt(answerStr).isNaN

\* C15: a handleAnswer call made outside playing, or with an empty text, or
\* with a text parseInt finds no integer in, changes no field of the
\* session, requests no cue and arms no callback.
C15_InvalidSubmitIgnored ==
    [][\A answerStr \in AnswerInputs \cup {userAnswer} :
          (NotPlayingOrNoNumber(answerStr) /\ handleAnswer(answerStr))
              => /\ UNCHANGED sessionFields
                 /\ cues' = << >>
                 /\ UNCHANGED <<answerTimeouts, victoryTimeouts>>]_vars

\* a later question is open for input with digits in the buffer, nothing is
\* pending, and the last step requested nothing from the audio object: a
\* call with a text that is no number arrives here and is ignored
C15_Witness ==
    /\ gameState = "playing"
    /\ ~isProcessing
    /\ ~isMuted
    /\ answerTimeouts = << >>
    /\ feedback = "none"
    /\ currentQuestionIndex >= 1
    /\ userAnswer # << >>
    /\ <<" ", "-", "x">> \in AnswerInputs
    /\ parseInt(<<" ", "-", "x">>).isNaN
    /\ cues = << >>

\* C16: in every reachable state 0 <= hearts <= 3: wrong answers never take
\* hearts below 0 and the next-level bonus never takes it above 3.
C16_HeartsRange == 0 <= hearts /\ hearts <= 3

\* a game past level 1 that began its level with 3 hearts, the bonus heart
\* included, and lost them all
C16_Witness ==
    /\ gameState = "game_over"
    /\ level >= 2
    /\ hearts = 0
    /\ wrongCount = 3

\* the steps that start a level
LevelStart ==
    ResumeResolved \/ HandleNextLevel \/ HandleRestartLevel \/ HandleRestartGame

\* C17: while playing, 0 <= currentQuestionIndex < questions.length; the
\* cursor changes only by +1, through the 800 ms callback of an answer that
\* does not end the level (level and questions unchanged), and by the reset
\* to 0 at a level start; a callback that ends the level or the game leaves
\* the cursor; every level start sets it to 0.
C17_CursorRange ==
    /\ [](gameState = "playing"
            => 0 <= currentQuestionIndex /\ currentQuestionIndex < Len(questions))
    /\ [][currentQuestionIndex' # currentQuestionIndex
            => \/ /\ AnswerTimeout
                  /\ currentQuestionIndex' = currentQuestionIndex + 1
                  /\ gameState' = "playing"
                  /\ UNCHANGED <<level, questions>>
               \/ LevelStart /\ currentQuestionIndex' = 0]_vars
    /\ [][(AnswerTimeout /\ gameState' = "playing")
            => currentQuestionIndex' = currentQuestionIndex + 1]_vars
    /\ [][LevelStart => currentQuestionIndex' = 0]_vars

\* the last question of a level past the first is open for input
C17_Witness ==
    /\ gameState = "playing"
    /\ ~isProcessing
    /\ level >= 2
    /\ currentQuestionIndex = Len(questions) - 1
    /\ correctCount + wrongCount = currentQuestionIndex

\* C18: in every reachable state 1 <= level <= 9; level changes only by +1
\* through handleNextLevel and by the reset to 1 through handleStartGame and
\* handleRestartGame; and NEXT LEVEL, offered in level_complete, is never
\* offered at level 9.
C18_LevelRange ==
    /\ [](1 <= level /\ level <= 9)
    /\ [][level' # level
            => \/ HandleNextLevel /\ level' = level + 1
               \/ (ResumeResolved \/ HandleRestartGame) /\ level' = 1]_vars
    /\ [](level >= 9 => gameState # "level_complete")

\* a new game at level 1 begun from the victory card of level 9
C18_Witness ==
    /\ gameState = "playing"
    /\ level = 1
    /\ showVictoryButton
    /\ currentQuestionIndex >= 1

\* C19: the timer changes only by +1, through a tick taken while playing,
\* and by the reset to 0 at a level start, which every level start makes;
\* a tick is enabled during the feedback window (up to the model's bound on
\* the timer) and none is enabled outside playing.
C19_Timer ==
    /\ [][timer' # timer
            => \/ Tick /\ gameState = "playing" /\ timer' = timer + 1
               \/ LevelStart /\ timer' = 0]_vars
    /\ [][LevelStart => timer' = 0]_vars
    /\ []((gameState = "playing" /\ isProcessing /\ timer < MaxTimer)
            => ENABLED Tick)
    /\ [](gameState # "playing" => ~ENABLED Tick)

\* the feedback window of an answer in a level past the first, with the
\* timer, reset at the level's start, ticked since
C19_Witness ==
    /\ gameState = "playing"
    /\ isProcessing
    /\ level >= 2
    /\ timer >= 1
    /\ feedback # "none"

\* C20: toggleMute inverts isMuted, so that two calls in a row restore it,
\* and leaves gameState, level, hearts, questions, currentQuestionIndex,
\* userAnswer, correctCount, wrongCount, feedback, timer and isProcessing
\* unchanged, in the feedback window too.
C20_ToggleMute ==
    [][ToggleMute
        => /\ isMuted' = ~isMuted
           /\ UNCHANGED <<gameState, level, hearts, questions,
                          currentQuestionIndex, userAnswer, correctCount,
                          wrongCount, feedback, timer, isProcessing>>]_vars

\* mute was switched on during a feedback window: the pending callback
\* captured isMuted unset
C20_Witness ==
    /\ gameState = "playing"
    /\ isProcessing
    /\ isMuted
    /\ Len(answerTimeouts) = 1
    /\ ~Head(answerTimeouts).isMuted

\* C21: when a level starts (handleStartGame, handleNextLevel,
\* handleRestartLevel, handleRestartGame) no 800 ms callback and no 10 s
\* victory callback armed earlier is pending, so none can fire against the
\* new session; a 10 s callback is armed by the step that enters victory and
\* by no other, one per entry, and at most one is pending at any time.
C21_NoStaleDeferral ==
    /\ [][LevelStart => answerTimeouts = << >> /\ victoryTimeouts = 0]_vars
    /\ [][(gameState # "victory" /\ gameState' = "victory")
            => victoryTimeouts' = victoryTimeouts + 1]_vars
    /\ [][victoryTimeouts' > victoryTimeouts
            => gameState # "victory" /\ gameState' = "victory"]_vars
    /\ [](victoryTimeouts <= 1)

\* a new game just begun from the victory card, whose 10 s callback has fired
C21_Witness ==
    /\ gameState = "playing"
    /\ level = 1
    /\ showVictoryButton
    /\ currentQuestionIndex = 0
    /\ correctCount + wrongCount = 0
    /\ answerTimeouts = << >>
    /\ victoryTimeouts = 0

\* C22: while the 800 ms callback of an accepted answer is pending,
\* gameState is playing, isProcessing is set, feedback is the verdict of that
\* answer, and currentQuestionIndex, level and questions are those the
\* callback captured; no step but the callback changes any of them; the step
\* that accepts the answer leaves gameState, currentQuestionIndex, level and
\* questions alone; and playing is left through the callback only.
C22_FeedbackWindow ==
    /\ [](answerTimeouts # << >>
            => /\ gameState = "playing"
               /\ isProcessing
               /\ feedback = (IF Head(answerTimeouts).isCorrect
                              THEN "correct" ELSE "wrong")
               /\ currentQuestionIndex = Head(answerTimeouts).currentQuestionIndex
               /\ level = Head(answerTimeouts).level
               /\ Len(questions) = Head(answerTimeouts).questionsLength)
    /\ [][(answerTimeouts # << >> /\ ~AnswerTimeout)
            => UNCHANGED <<gameState, currentQuestionIndex, level, questions,
                           isProcessing, feedback>>]_vars
    /\ [][Len(answerTimeouts') > Len(answerTimeouts)
            => /\ gameState = "playing" /\ gameState' = "playing"
               /\ UNCHANGED <<currentQuestionIndex, level, questions>>]_vars
    /\ [][(gameState = "playing" /\ gameState' # "playing") => AnswerTimeout]_vars

\* the last heart was lost and the game is not over yet: the callback is
\* pending, and the sound was switched back on since the answer
C22_Witness ==
    /\ gameState = "playing"
    /\ isProcessing
    /\ feedback = "wrong"
    /\ hearts = 0
    /\ Len(answerTimeouts) = 1
    /\ Head(answerTimeouts).isMuted
    /\ ~isMuted

\* C23: with the timer callbacks run once armed, every accepted answer is
\* followed by a state in which isProcessing is unset, feedback is none and
\* userAnswer is empty.
C23_LockReleased ==
    (answerTimeouts # << >>)
        ~> (~isProcessing /\ feedback = "none" /\ userAnswer = << >>)

\* answers of both kinds have been given and resolved, and the next question
\* is open with an empty buffer
C23_Witness ==
    /\ gameState = "playing"
    /\ ~isProcessing
    /\ feedback = "none"
    /\ userAnswer = << >>
    /\ answerTimeouts = << >>
    /\ correctCount >= 1
    /\ wrongCount >= 1
    /\ currentQuestionIndex = correctCount + wrongCount

\* C24: correctCount + wrongCount is the number of questions of the level
\* answered: currentQuestionIndex while playing with the input unlocked,
\* currentQuestionIndex + 1 while an answer is being processed, and
\* questions.length in level_complete and in victory.
C24_AnsweredCount ==
    /\ (gameState = "playing" /\ ~isProcessing)
          => correctCount + wrongCount = currentQuestionIndex
    /\ (gameState = "playing" /\ isProcessing)
          => correctCount + wrongCount = currentQuestionIndex + 1
    /\ gameState \in {"level_complete", "victory"}
          => correctCount + wrongCount = Len(questions)

\* the answer to the last question of a level is being processed, after
\* right and wrong answers: all questions are counted, the level not yet
\* resolved
C24_Witness ==
    /\ gameState = "playing"
    /\ isProcessing
    /\ currentQuestionIndex = Len(questions) - 1
    /\ correctCount >= 1
    /\ wrongCount >= 1
    /\ correctCount + wrongCount = Len(questions)

====
